---- MODULE Spec2Model ----
(***************************************************************************)
(* Model of src/src/Scraper.py: the paginated search for .qdpx files, the  *)
(* per-item dataset-metadata extraction and the file download, run by      *)
(* main() as one sequential loop.  The remote service is the environment:  *)
(* every response it can give is a nondeterministic choice.                *)
(***************************************************************************)
EXTENDS Integers, Sequences, FiniteSets, TLC

\* ------------------------------------------------------------------ bounds
\* per_page as passed by main (50 in the source), scaled down.
PerPage == 2
\* Largest total_count the service reports.
MaxTotal == 3

\* ------------------------------------------------------------------ text
\* Strings that the code inspects or builds are sequences of characters.
Ext == <<".", "q", "d", "p", "x">>

Digit(d) == CASE d = 0 -> "0" [] d = 1 -> "1" [] d = 2 -> "2" [] d = 3 -> "3"
              [] d = 4 -> "4" [] d = 5 -> "5" [] d = 6 -> "6" [] d = 7 -> "7"
              [] d = 8 -> "8" [] d = 9 -> "9"

RECURSIVE Str(_)
\* str(n) of a non-negative integer, as the f-strings format it.
Str(n) == IF n < 10 THEN <<Digit(n)>> ELSE Str(n \div 10) \o <<Digit(n % 10)>>

LowerChar(c) == CASE c = "A" -> "a" [] c = "Q" -> "q" [] c = "D" -> "d"
                  [] c = "P" -> "p" [] c = "X" -> "x" [] OTHER -> c

\* str.lower()
Lower(s) == [i \in 1..Len(s) |-> LowerChar(s[i])]

\* str.endswith(suffix)
EndsWith(s, suffix) ==
    /\ Len(s) >= Len(suffix)
    /\ SubSeq(s, Len(s) - Len(suffix) + 1, Len(s)) = suffix

\* ------------------------------------------------------------------ dicts
\* A JSON object / Python dict is a function from keys to values; {} is the
\* function with the empty domain.
EmptyDict == [k \in {} |-> TRUE]

\* dict.get(key, default)
Get(d, k, default) == IF k \in DOMAIN d THEN d[k] ELSE default

\* dict.get(key): None when the key is absent.  HasKey tells the two apart
\* where the code tests the value for truthiness.
HasKey(d, k) == k \in DOMAIN d

\* ------------------------------------------------------------------ config
BASE_URL == <<"https://dataverse.harvard.edu">>
FILES_DIR == <<"harvard_qdpx_files">>
META_DIR == <<"harvard_qdpx_authors">>

\* os.path.join(dir, name)
PathJoin(dir, name) == dir \o <<"/">> \o name

\* ------------------------------------------------------------------ items
\* Search result items are dicts; a key the service leaves out is absent
\* from the domain.
NameLower == <<"a">> \o Ext
NameUpper == <<"a", ".", "Q", "D", "P", "X">>
NameTxt == <<"a", ".", "t", "x", "t">>
ItemUrl == <<"https://files.example/direct">>
Doi == <<"doi:10.7910/DVN/X">>
DatasetName == <<"Study">>

\* The file identifiers of the service: one digit and two.
FileIds == {1, 12}

Opt(k, V) == {EmptyDict} \cup {k :> v : v \in V}

\* An item of no dataset, or of the one dataset of the model.
DatasetPart ==
    {EmptyDict,
     [dataset_persistent_id |-> Doi, dataset_id |-> 7, dataset_name |-> DatasetName]}

\* Items the name filter lets through, with every combination of the
\* optional fields the pipeline reads.
QdpxItems ==
    {("name" :> NameLower) @@ f @@ u @@ c @@ ds :
        f \in Opt("file_id", FileIds),
        u \in Opt("url", {ItemUrl}),
        c \in {"canDownloadFile" :> b : b \in BOOLEAN},
        ds \in DatasetPart}
    \cup {[name |-> NameUpper, file_id |-> 1],
          [name |-> NameUpper, file_id |-> 1, canDownloadFile |-> TRUE]}

\* Items the name filter drops: another extension, and no name at all.
OtherItems == {("name" :> NameTxt) @@ ("canDownloadFile" :> TRUE), EmptyDict}

Items == QdpxItems \cup OtherItems

NoItem == EmptyDict

\* ------------------------------------------------------------------ dataset documents
\* JSON null / Python None where a dict is expected.
Null == [py_none |-> TRUE]
\* A nullable string: <<s>> is the string s, <<>> is None.
None == <<>>

\* Longest author list in a dataset document.
MaxAuthors == 1

\* Author entries: one without affiliation, one whose name has no value.
AuthorObjs ==
    { [authorName |-> [value |-> "Bob"]],
      [authorName |-> EmptyDict, authorAffiliation |-> [value |-> "ETH"]] }

AuthorValues == UNION {[1..n -> AuthorObjs] : n \in 0..MaxAuthors}

TitleField == [typeName |-> "title"]

FieldLists ==
    {<<>>, <<TitleField>>, <<[typeName |-> "author"]>>, <<[value |-> <<>>]>>}
    \cup {<<TitleField, [typeName |-> "author", value |-> v]>> : v \in AuthorValues}
    \cup {<<[typeName |-> "author",
              value |-> <<[authorName |-> [value |-> "Ann"],
                           authorAffiliation |-> [value |-> "MIT"]]>>],
             TitleField,
             [typeName |-> "author", value |-> <<[authorName |-> [value |-> "Bob"]]>>]>>}

MkBlocks(blocks) == [data |-> [latestVersion |-> [metadataBlocks |-> blocks]]]

DatasetDocs ==
    { EmptyDict,
      [data |-> EmptyDict],
      [data |-> Null],
      [data |-> [latestVersion |-> EmptyDict]],
      MkBlocks(EmptyDict),
      MkBlocks([citation |-> EmptyDict]),
      MkBlocks([citation |-> Null]) }
    \cup {MkBlocks([citation |-> [fields |-> fl]]) : fl \in FieldLists}

\* ------------------------------------------------------------------ extraction
\* x.get("value") on a dict x: the value, or None when the key is absent.
ValueOf(x) == IF HasKey(x, "value") THEN <<x["value"]>> ELSE None

\* One pass of the inner loop: the author dicts of one field, in order.
AuthorsOfField(field) ==
    LET objs == Get(field, "value", <<>>)
    IN  [i \in 1..Len(objs) |->
            [name |-> ValueOf(Get(objs[i], "authorName", EmptyDict)),
             affiliation |-> ValueOf(Get(objs[i], "authorAffiliation", EmptyDict))]]

RECURSIVE AuthorsOfFields(_)
\* The outer loop over the citation fields.
AuthorsOfFields(fields) ==
    IF fields = <<>> THEN <<>>
    ELSE (IF HasKey(Head(fields), "typeName") /\ Head(fields)["typeName"] = "author"
             THEN AuthorsOfField(Head(fields)) ELSE <<>>)
         \o AuthorsOfFields(Tail(fields))

Raised(e) == [exc |-> e, authors |-> <<>>]
Returned(a) == [exc |-> "none", authors |-> a]

\* The same descent with subscripts instead of .get(key, {}): a missing key
\* raises KeyError.
extract_authors_affiliations_strict(dataset_json) ==
    IF ~HasKey(dataset_json, "data") THEN Raised("KeyError") ELSE
    LET data == dataset_json["data"] IN
    IF data = Null THEN Raised("AttributeError") ELSE
    IF ~HasKey(data, "latestVersion") THEN Raised("KeyError") ELSE
    LET latest_version == data["latestVersion"] IN
    IF latest_version = Null THEN Raised("AttributeError") ELSE
    IF ~HasKey(latest_version, "metadataBlocks") THEN Raised("KeyError") ELSE
    LET metadata_blocks == latest_version["metadataBlocks"] IN
    IF metadata_blocks = Null THEN Raised("AttributeError") ELSE
    IF ~HasKey(metadata_blocks, "citation") THEN Raised("KeyError") ELSE
    LET citation_block == metadata_blocks["citation"] IN
    IF citation_block = Null THEN Raised("AttributeError") ELSE
    IF ~HasKey(citation_block, "fields") THEN Raised("KeyError") ELSE
    Returned(AuthorsOfFields(citation_block["fields"]))

\* extract_authors_affiliations: the author list, or the AttributeError of
\* calling .get on None.
extract_authors_affiliations(dataset_json) ==
    LET data == Get(dataset_json, "data", EmptyDict) IN
    IF data = Null THEN Raised("AttributeError") ELSE
    LET latest_version == Get(data, "latestVersion", EmptyDict) IN
    IF latest_version = Null THEN Raised("AttributeError") ELSE
    LET metadata_blocks == Get(latest_version, "metadataBlocks", EmptyDict) IN
    IF metadata_blocks = Null THEN Raised("AttributeError") ELSE
    LET citation_block == Get(metadata_blocks, "citation", EmptyDict) IN
    IF citation_block = Null THEN Raised("AttributeError") ELSE
    Returned(AuthorsOfFields(Get(citation_block, "fields", <<>>)))

\* ------------------------------------------------------------------ json
\* The text of a JSON file is the sequence of its tokens; the white space
\* that indent=2 puts between them carries no value and is left out.
Quoted(s) == <<"\"">> \o s \o <<"\"">>

\* None written as an empty string instead of null.
DumpStrEmptyForNone(x) == IF x = None THEN Quoted(<<"">>) ELSE Quoted(x)

\* json.dump of an author's name or affiliation: a str, or None.
DumpStr(x) == IF x = None THEN <<"null">> ELSE Quoted(x)

\* json.dump of item.get(key) where the value is a text, or None.
DumpText(x) == IF x = None THEN <<"null">> ELSE Quoted(x[1])

\* json.dump of item.get(key) where the value is an int, or None.
DumpInt(x) == IF x = None THEN <<"null">> ELSE Str(x[1])

\* json.dump of one author dict: the keys in insertion order.
DumpAuthor(a) ==
    <<"{">> \o Quoted(<<"name">>) \o <<":">> \o DumpStr(a.name) \o <<",">>
            \o Quoted(<<"affiliation">>) \o <<":">> \o DumpStr(a.affiliation) \o <<"}">>

RECURSIVE DumpAuthors(_)
\* The elements of the author list, separated by commas.
DumpAuthors(l) ==
    IF l = <<>> THEN <<>>
    ELSE DumpAuthor(Head(l)) \o (IF Tail(l) = <<>> THEN <<>> ELSE <<",">>)
         \o DumpAuthors(Tail(l))

\* Line 153: json.dump(data_to_save, f, indent=2, ensure_ascii=False).
json_dump(data) ==
    <<"{">> \o Quoted(<<"dataset_id">>) \o <<":">> \o DumpInt(data.dataset_id) \o <<",">>
            \o Quoted(<<"dataset_persistent_id">>) \o <<":">>
            \o DumpText(data.dataset_persistent_id) \o <<",">>
            \o Quoted(<<"dataset_name">>) \o <<":">> \o DumpText(data.dataset_name) \o <<",">>
            \o Quoted(<<"authors">>) \o <<":", "[">> \o DumpAuthors(data.authors)
            \o <<"]", "}">>

\* ------------------------------------------------------------------ state
VARIABLES
    pc,             \* where main() is: search, iter, meta, download, downloading,
                    \* report, done, crashed
    exc,            \* the exception that ended the run, "none" otherwise
    start,          \* search_qdpx_files: offset of the next page request
    total_count,    \* search_qdpx_files: total_count of the current page
    nitems,         \* search_qdpx_files: len(items) of the current page
    idx,            \* search_qdpx_files: position of the for loop in the page
    item,           \* the item being processed, NoItem when none is
    count,          \* main: items processed
    summary,        \* main: the counts the final print reports, {} before it
    dataset_json,   \* process_qdpx_item: the metadata document fetched
    authors,        \* process_qdpx_item: the extracted author list
    metaOutcome,    \* process_qdpx_item: how step 1 ended for the item
    download_url,   \* download_qdpx_file: the URL requested, <<>> before the request
    dest_path,      \* download_qdpx_file: the destination, <<>> before it is computed
    outcome,        \* how the last download_qdpx_file call ended
    files,          \* FILES_DIR on disk: path -> [src, body, complete]
    metaFiles,      \* META_DIR on disk: path -> text of the JSON file
    offsets,        \* offsets of the page requests issued, in order
    lastSearch,     \* how the last page request ended
    fetched,        \* items contained in the pages fetched so far
    named,          \* items the loop has reached that are in QdpxItems
    yielded,        \* items yielded by the paginator
    dlCalls,        \* calls of download_qdpx_file
    saved           \* download calls that wrote a complete file

vars == <<pc, exc, start, total_count, nitems, idx, item, count, summary,
          dataset_json, authors, metaOutcome, download_url, dest_path, outcome,
          files, metaFiles, offsets, lastSearch, fetched, named, yielded, dlCalls,
          saved>>

paginator == <<start, total_count, nitems, idx>>
disk == <<files, metaFiles>>
metaLocals == <<dataset_json, authors, metaOutcome>>
dlLocals == <<download_url, dest_path, outcome, dlCalls, saved>>
searchLog == <<offsets, lastSearch, fetched>>

\* ------------------------------------------------------------------ naming
\* Python truthiness of item.get(key): absent (None) and "" are falsy,
TruthyStr(d, k) == HasKey(d, k) /\ d[k] # <<>>
\* and so are absent (None) and 0.
TruthyInt(d, k) == HasKey(d, k) /\ d[k] # 0

\* item.get(key) kept as a value: <<v>>, or None when the key is absent.
GetOpt(d, k) == IF HasKey(d, k) THEN <<d[k]>> ELSE None

\* The stored name without the file_id prefix.
SafeNameBare(it) == Get(it, "name", <<"unknown.qdpx">>)

\* Lines 181-184: the name the file is stored under.
SafeName(it) ==
    LET file_name == Get(it, "name", <<"unknown.qdpx">>)
    IN  IF TruthyInt(it, "file_id") THEN Str(it["file_id"]) \o <<"_">> \o file_name
        ELSE file_name

\* A destination that steps aside when the path is already taken.
DestPathFresh(it, output_dir) ==
    IF PathJoin(output_dir, SafeName(it)) \in DOMAIN files
    THEN PathJoin(output_dir, <<"copy_of_">> \o SafeName(it))
    ELSE PathJoin(output_dir, SafeName(it))

\* Line 187.
DestPath(it, output_dir) == PathJoin(output_dir, SafeName(it))

\* The URL built from the file_id whenever there is one.
DownloadUrlFromIdFirst(it) ==
    IF TruthyInt(it, "file_id")
    THEN BASE_URL \o <<"/api/access/datafile/">> \o Str(it["file_id"])
    ELSE it["url"]

\* Lines 175-179: the URL the download is requested from.
DownloadUrl(it) ==
    IF TruthyStr(it, "url") THEN it["url"]
    ELSE BASE_URL \o <<"/api/access/datafile/">> \o Str(it["file_id"])

\* Line 150.
AuthorsPath(dataset_id, out_dir) ==
    PathJoin(out_dir, (IF dataset_id = None THEN <<"None">> ELSE Str(dataset_id[1]))
                      \o <<"_authors.json">>)

\* No name test: every item of the page is yielded.
IsQdpxAnyName(it) == TRUE

\* The name test without lower(): a case-sensitive comparison.
IsQdpxCaseSensitive(it) == EndsWith(Get(it, "name", <<>>), Ext)

\* Lines 66-68: the name test of the paginator.
IsQdpx(it) == EndsWith(Lower(Get(it, "name", <<>>)), Ext)

\* ------------------------------------------------------------------ main, lines 250-257
Init ==
    /\ pc = "search"
    /\ exc = "none"
    /\ start = 0
    /\ total_count = 0
    /\ nitems = 0
    /\ idx = 1
    /\ item = NoItem
    /\ count = 0
    /\ summary = EmptyDict
    /\ dataset_json = EmptyDict
    /\ authors = <<>>
    /\ metaOutcome = "none"
    /\ download_url = <<>>
    /\ dest_path = <<>>
    /\ outcome = "none"
    /\ files = EmptyDict
    /\ metaFiles = EmptyDict
    /\ offsets = <<>>
    /\ lastSearch = "none"
    /\ fetched = 0
    /\ named = 0
    /\ yielded = 0
    /\ dlCalls = 0
    /\ saved = 0

\* ------------------------------------------------------------------ search_qdpx_files
\* Lines 50-51: session.get fails (network error, timeout) or raise_for_status
\* raises.  Nothing catches it: it leaves the generator and main.
SearchRaises ==
    /\ pc = "search"
    /\ \E e \in {"ConnectionError", "HTTPError"} :
        /\ exc' = e
        /\ lastSearch' = e
    /\ offsets' = Append(offsets, start)
    /\ pc' = "crashed"
    /\ UNCHANGED <<paginator, item, count, summary, disk, metaLocals, dlLocals,
                   fetched, named, yielded>>

\* Lines 54-56: the payload's status is not "OK": break, the generator ends.
SearchNotOK ==
    /\ pc = "search"
    /\ offsets' = Append(offsets, start)
    /\ lastSearch' = "NotOK"
    /\ pc' = "report"
    /\ UNCHANGED <<exc, paginator, item, count, summary, disk, metaLocals, dlLocals,
                   fetched, named, yielded>>

\* The pages the service answers a request at offset s with: a reported
\* total, and at most per_page items, none beyond the total.
PageSizes(s, total) == {n \in 0..PerPage : s + n <= total}

\* Lines 58-63: a page of n items with a reported total; an empty page ends
\* the generator.  What the items are is left open until the loop reaches them.
SearchPage ==
    /\ pc = "search"
    /\ \E total \in 0..MaxTotal :
        \E n \in PageSizes(start, total) :
            /\ nitems' = n
            /\ total_count' = total
            /\ fetched' = fetched + n
            /\ pc' = IF n = 0 THEN "report" ELSE "iter"
    /\ idx' = 1
    /\ offsets' = Append(offsets, start)
    /\ lastSearch' = "OK"
    /\ UNCHANGED <<exc, start, item, count, summary, disk, metaLocals, dlLocals,
                   named, yielded>>

\* Lines 65-69: the for loop takes the next item of the page; an item whose
\* name passes the test is yielded to main, which calls process_qdpx_item.
NextItem ==
    /\ pc = "iter"
    /\ idx <= nitems
    /\ \E it \in Items :
        /\ named' = IF it \in QdpxItems THEN named + 1 ELSE named
        /\ IF IsQdpx(it)
           THEN /\ item' = it
                /\ yielded' = yielded + 1
                /\ pc' = "meta"
           ELSE UNCHANGED <<item, yielded, pc>>
    /\ idx' = idx + 1
    /\ UNCHANGED <<exc, start, total_count, nitems, count, summary, disk, metaLocals,
                   dlLocals, searchLog>>

\* The offset advanced by the number of items the page held.
PageDoneByItems ==
    /\ pc = "iter"
    /\ idx > nitems
    /\ start' = start + nitems
    /\ pc' = IF start' >= total_count THEN "report" ELSE "search"
    /\ UNCHANGED <<exc, total_count, nitems, idx, item, count, summary, disk,
                   metaLocals, dlLocals, searchLog, named, yielded>>

\* Lines 71-75: the page is exhausted: advance the offset, stop at the total.
PageDone ==
    /\ pc = "iter"
    /\ idx > nitems
    /\ start' = start + PerPage
    /\ pc' = IF start' >= total_count THEN "report" ELSE "search"
    /\ UNCHANGED <<exc, total_count, nitems, idx, item, count, summary, disk,
                   metaLocals, dlLocals, searchLog, named, yielded>>

\* ------------------------------------------------------------------ process_qdpx_item, step 1
\* Line 231, else branch: the item has no dataset_persistent_id.
MetaSkipped ==
    /\ pc = "meta"
    /\ ~TruthyStr(item, "dataset_persistent_id")
    /\ metaOutcome' = "NoPid"
    /\ pc' = "download"
    /\ UNCHANGED <<exc, paginator, item, count, summary, dataset_json, authors, disk,
                   dlLocals, searchLog, named, yielded>>

\* The except clause writing a side-record without authors.
MetaHTTPErrorSavingEmpty ==
    /\ pc = "meta"
    /\ TruthyStr(item, "dataset_persistent_id")
    /\ metaOutcome' = "HTTPError"
    /\ metaFiles' =
          (AuthorsPath(GetOpt(item, "dataset_id"), META_DIR) :>
              json_dump([dataset_id |-> GetOpt(item, "dataset_id"),
                         dataset_persistent_id |-> GetOpt(item, "dataset_persistent_id"),
                         dataset_name |-> GetOpt(item, "dataset_name"),
                         authors |-> <<>>])) @@ metaFiles
    /\ pc' = "download"
    /\ UNCHANGED <<exc, paginator, item, count, summary, dataset_json, authors, files,
                   dlLocals, searchLog, named, yielded>>

\* Lines 83-84 under the try of lines 232-237: raise_for_status raises
\* requests.HTTPError, which the except clause catches and logs.
MetaHTTPError ==
    /\ pc = "meta"
    /\ TruthyStr(item, "dataset_persistent_id")
    /\ metaOutcome' = "HTTPError"
    /\ pc' = "download"
    /\ UNCHANGED <<exc, paginator, item, count, summary, dataset_json, authors, disk,
                   dlLocals, searchLog, named, yielded>>

\* Line 83: session.get itself fails (no connection, timeout).  The exception
\* is no HTTPError, so the except clause of line 236 lets it through and the
\* run is over.
MetaUnreachable ==
    /\ pc = "meta"
    /\ TruthyStr(item, "dataset_persistent_id")
    /\ metaOutcome' = "ConnectionError"
    /\ exc' = "ConnectionError"
    /\ item' = NoItem
    /\ pc' = "crashed"
    /\ UNCHANGED <<paginator, count, summary, dataset_json, authors, disk,
                   dlLocals, searchLog, named, yielded>>

\* The file opened with "a": the record is written after what the file holds.
save_authors_metadata_appending(dataset_id, dataset_persistent_id, dataset_name, auths, out_dir) ==
    LET data_to_save == [dataset_id |-> dataset_id,
                         dataset_persistent_id |-> dataset_persistent_id,
                         dataset_name |-> dataset_name,
                         authors |-> auths]
        file_path == AuthorsPath(dataset_id, out_dir)
    IN  (file_path :> Get(metaFiles, file_path, <<>>) \o json_dump(data_to_save)) @@ metaFiles

\* Lines 141-153: the side-record written for the item; open(file_path, "w")
\* replaces whatever the file held.
save_authors_metadata(dataset_id, dataset_persistent_id, dataset_name, auths, out_dir) ==
    LET data_to_save == [dataset_id |-> dataset_id,
                         dataset_persistent_id |-> dataset_persistent_id,
                         dataset_name |-> dataset_name,
                         authors |-> auths]
    IN  (AuthorsPath(dataset_id, out_dir) :> json_dump(data_to_save)) @@ metaFiles

\* Lines 233-235: the document arrives; the authors are extracted and saved.
\* An AttributeError of the extraction is not caught.
MetaFetched ==
    /\ pc = "meta"
    /\ TruthyStr(item, "dataset_persistent_id")
    /\ \E doc \in DatasetDocs :
        LET r == extract_authors_affiliations(doc) IN
        /\ dataset_json' = doc
        /\ authors' = r.authors
        /\ IF r.exc = "none"
           THEN /\ metaFiles' = save_authors_metadata(
                        GetOpt(item, "dataset_id"), GetOpt(item, "dataset_persistent_id"),
                        GetOpt(item, "dataset_name"), r.authors, META_DIR)
                /\ pc' = "download"
                /\ UNCHANGED <<exc, item>>
           ELSE /\ metaFiles' = metaFiles
                /\ pc' = "crashed"
                /\ exc' = r.exc
                /\ item' = NoItem
    /\ metaOutcome' = "Fetched"
    /\ UNCHANGED <<paginator, count, summary, files, dlLocals, searchLog,
                   named, yielded>>

\* The permission flag ignored.
CanDownloadIgnored(it) == TRUE

\* ------------------------------------------------------------------ download_qdpx_file
\* Line 169.
CanDownload(it) == Get(it, "canDownloadFile", FALSE)

\* Lines 175-176: neither a URL nor a file_id.
NoLocator(it) == ~TruthyStr(it, "url") /\ ~TruthyInt(it, "file_id")

\* The call returns to process_qdpx_item, which returns to main (line 260):
\* the item is done and the locals of both calls are gone.
Returns ==
    /\ count' = count + 1
    /\ item' = NoItem
    /\ dataset_json' = EmptyDict
    /\ authors' = <<>>
    /\ metaOutcome' = "none"
    /\ download_url' = <<>>
    /\ dest_path' = <<>>
    /\ pc' = "iter"
    /\ UNCHANGED <<exc, paginator, summary, metaFiles, searchLog, named, yielded>>

\* A failing download that takes the item's side-record with it.
RaisesDiscardingRecord(e) ==
    /\ exc' = e
    /\ item' = NoItem
    /\ download_url' = <<>>
    /\ dest_path' = <<>>
    /\ pc' = "crashed"
    /\ metaFiles' = [p \in DOMAIN metaFiles
                         \ {AuthorsPath(GetOpt(item, "dataset_id"), META_DIR)} |-> metaFiles[p]]
    /\ UNCHANGED <<paginator, count, summary, dataset_json, authors, metaOutcome,
                   searchLog, named, yielded>>

\* The call ends with exception e, which nothing up to main catches: the
\* stack unwinds and the run is over.
Raises(e) ==
    /\ exc' = e
    /\ item' = NoItem
    /\ download_url' = <<>>
    /\ dest_path' = <<>>
    /\ pc' = "crashed"
    /\ UNCHANGED <<paginator, count, summary, dataset_json, authors, metaOutcome,
                   metaFiles, searchLog, named, yielded>>

\* Lines 171-178: return before any request.
DownloadSkipped ==
    /\ pc = "download"
    /\ ~CanDownload(item) \/ NoLocator(item)
    /\ outcome' = IF ~CanDownload(item) THEN "SkippedNoPermission" ELSE "SkippedNoLocator"
    /\ dlCalls' = dlCalls + 1
    /\ UNCHANGED <<files, saved>>
    /\ Returns

\* The download put off: the call returns once the request is noted, and the
\* item counts as processed.
DownloadRequestDeferred ==
    /\ pc = "download"
    /\ CanDownload(item)
    /\ ~NoLocator(item)
    /\ outcome' = "Requested"
    /\ UNCHANGED <<files, saved, dlCalls>>
    /\ Returns

\* Lines 179-191: the URL and the destination are settled and the request
\* is issued.  The document and the author list of step 1 are not read
\* again from here on.
DownloadRequest ==
    /\ pc = "download"
    /\ CanDownload(item)
    /\ ~NoLocator(item)
    /\ dlCalls' = dlCalls + 1
    /\ download_url' = DownloadUrl(item)
    /\ dest_path' = DestPath(item, FILES_DIR)
    /\ outcome' = "Requested"
    /\ dataset_json' = EmptyDict
    /\ authors' = <<>>
    /\ pc' = "downloading"
    /\ UNCHANGED <<exc, paginator, item, count, summary, metaOutcome, disk, saved,
                   searchLog, named, yielded>>

\* Status 403 treated like every other error status: raise_for_status raises.
DownloadForbiddenFatal ==
    /\ pc = "downloading"
    /\ outcome' = "Forbidden"
    /\ UNCHANGED <<files, saved, dlCalls>>
    /\ Raises("HTTPError")

\* Lines 192-194: status 403.
DownloadForbidden ==
    /\ pc = "downloading"
    /\ outcome' = "Forbidden"
    /\ UNCHANGED <<files, saved, dlCalls>>
    /\ Returns

\* Lines 191 and 195: session.get fails, or raise_for_status raises on a
\* status of 400 or more other than 403.
DownloadRaises ==
    /\ pc = "downloading"
    /\ outcome' = "Failed"
    /\ UNCHANGED <<files, saved, dlCalls>>
    /\ \E e \in {"ConnectionError", "HTTPError"} : Raises(e)

\* The chunks written to a second file next to the destination as well.
WrittenLeavingPart(complete) ==
    LET content == [src |-> <<item["name"], GetOpt(item, "file_id")>>,
                    body |-> download_url,
                    complete |-> complete]
    IN  (dest_path :> content) @@ ((dest_path \o <<".part">>) :> content) @@ files

\* What open(dest_path, "wb") and the chunk loop leave on disk.
Written(complete) ==
    (dest_path :> [src |-> <<item["name"], GetOpt(item, "file_id")>>,
                   body |-> download_url,
                   complete |-> complete]) @@ files

\* Lines 197-202: the file is opened for writing and every chunk arrives.
DownloadSaved ==
    /\ pc = "downloading"
    /\ outcome' = "Saved"
    /\ files' = Written(TRUE)
    /\ saved' = saved + 1
    /\ UNCHANGED dlCalls
    /\ Returns

\* Lines 197-200: the file is opened for writing (and so truncated) and the
\* stream breaks before the last chunk.
DownloadBroken ==
    /\ pc = "downloading"
    /\ outcome' = "Failed"
    /\ files' = Written(FALSE)
    /\ UNCHANGED <<saved, dlCalls>>
    /\ Raises("ChunkedEncodingError")

\* ------------------------------------------------------------------ main
\* Line 262: the generator is exhausted; the final print.
Report ==
    /\ pc = "report"
    /\ summary' = [processed |-> count]
    /\ pc' = "done"
    /\ UNCHANGED <<exc, paginator, item, count, disk, metaLocals, dlLocals,
                   searchLog, named, yielded>>

Next ==
    \/ SearchRaises
    \/ SearchNotOK
    \/ SearchPage
    \/ NextItem
    \/ PageDone
    \/ MetaSkipped
    \/ MetaHTTPError
    \/ MetaUnreachable
    \/ MetaFetched
    \/ DownloadSkipped
    \/ DownloadRequest
    \/ DownloadForbidden
    \/ DownloadRaises
    \/ DownloadSaved
    \/ DownloadBroken
    \/ Report

Spec == Init /\ [][Next]_vars

\* main() runs on: the interpreter executes the next statement.
LiveSpec == Spec /\ WF_vars(Next)


\* ================================================================== claims
Terminated == pc \in {"done", "crashed"}

\* C1 as stated: when the generator is exhausted, it has yielded as many
\* items as the pages it fetched contained.
C1_YieldsEveryFetchedItem == pc = "done" => yielded = fetched

\* C1, amended: the run of page requests ends, and when the generator is
\* exhausted it has yielded exactly the fetched items whose name ends in
\* ".qdpx" (in any case); the other items of the pages are not yielded.
C1_TerminatesYieldingQdpxItems ==
    /\ <>Terminated
    /\ [](pc = "done" => yielded = named /\ named <= fetched)

C1_Witness ==
    /\ pc = "done"
    /\ Len(offsets) = 2
    /\ fetched = total_count
    /\ yielded = named
    /\ yielded > 0
    /\ yielded < fetched

\* C2: a download that fails with a network error, a timeout or a status
\* other than 403 does not abort the run.
C2_DownloadFailureDoesNotAbort == outcome = "Failed" => pc # "crashed"

\* C3: once a download call has ended, no destination path holds a
\* partially written file.
C3_NoPartialFile ==
    pc # "downloading" => \A p \in DOMAIN files : files[p].complete

\* C4: when the metadata fetch of an item fails (error status, or endpoint
\* unreachable), the download step of that item is still invoked, once.
C4_DownloadAfterMetadataFailure ==
    metaOutcome \in {"HTTPError", "ConnectionError"} =>
        \/ pc = "download" /\ dlCalls = yielded - 1
        \/ pc # "download" /\ dlCalls = yielded

\* C5: after a page request that fails (error status, payload status not
\* "OK", network error) no further request is issued and the run goes on to
\* report the items processed so far.
C5_SearchFailureStillReports ==
    lastSearch \in {"HTTPError", "ConnectionError", "NotOK"} =>
        /\ pc \in {"report", "done"}
        /\ pc = "done" => summary = [processed |-> count]

\* The item's permission flag is true.
Permitted(it) == "canDownloadFile" \in DOMAIN it /\ it["canDownloadFile"]

\* C6: a download call for an item whose permission flag is not true issues
\* no request and writes no file, whatever its URL and file identifier.
C6_NoRequestWithoutPermission ==
    [][pc = "download" /\ ~Permitted(item) =>
          /\ pc' # "downloading"
          /\ download_url' = <<>>
          /\ files' = files
          /\ outcome' = "SkippedNoPermission"]_vars

C6_Witness ==
    /\ outcome = "SkippedNoPermission"
    /\ pc = "iter"
    /\ dlCalls = 2
    /\ files = EmptyDict

\* The name and the file identifier of the item being downloaded.
ItemKey == <<item["name"], GetOpt(item, "file_id")>>

\* C7: the destination of a download never is the path of a file stored
\* for an item of the same name and another file identifier.
C7_DistinctIdsDistinctPaths ==
    pc = "downloading" =>
        \A p \in DOMAIN files :
            files[p].src[1] = ItemKey[1] /\ files[p].src[2] # ItemKey[2] => p # dest_path

C7_Witness ==
    /\ pc = "downloading"
    /\ \E p \in DOMAIN files :
        /\ files[p].src[1] = ItemKey[1]
        /\ files[p].src[2] # ItemKey[2]
        /\ files[p].src[2] # None
        /\ ItemKey[2] # None

\* C8: a download of an item whose file is already stored has the path of
\* that file as its destination again.
C8_SameItemSamePath ==
    pc = "downloading" =>
        \A p \in DOMAIN files : files[p].src = ItemKey => p = dest_path

C8_Witness ==
    /\ pc = "downloading"
    /\ \E p \in DOMAIN files : files[p].src = ItemKey /\ files[p].body = download_url
    /\ Cardinality(DOMAIN files) = 2

\* C9: the summary of a completed run has the four counts, processed being
\* the number of items yielded and saved the number of successful downloads.
C9_SummaryCounts ==
    pc = "done" =>
        /\ DOMAIN summary = {"processed", "saved", "skipped", "failed"}
        /\ summary["processed"] = yielded
        /\ summary["saved"] = saved

\* The path from the document to the citation fields.
CitationPath == <<"data", "latestVersion", "metadataBlocks", "citation", "fields">>

RECURSIVE MissingOn(_, _)
\* Some structure on the path is missing: a key is absent where the descent
\* has reached a dict.
MissingOn(x, path) ==
    IF path = <<>> THEN FALSE
    ELSE IF x = Null THEN FALSE
    ELSE IF Head(path) \notin DOMAIN x THEN TRUE
    ELSE MissingOn(x[Head(path)], Tail(path))

RECURSIVE Reach(_, _)
\* The citation fields of a document that has the whole path, else <<>>.
Reach(x, path) ==
    IF path = <<>> THEN x
    ELSE IF x = Null \/ Head(path) \notin DOMAIN x THEN <<>>
    ELSE Reach(x[Head(path)], Tail(path))

RECURSIVE Intact(_, _)
\* Every key of the path is present and leads to a dict.
Intact(x, path) ==
    IF path = <<>> THEN TRUE
    ELSE x # Null /\ Head(path) \in DOMAIN x /\ Intact(x[Head(path)], Tail(path))

IsAuthorField(f) == "typeName" \in DOMAIN f /\ f["typeName"] = "author"

RECURSIVE SourceAuthors(_)
\* The author entries of the source metadata, in document order.
SourceAuthors(fields) ==
    IF fields = <<>> THEN <<>>
    ELSE (IF IsAuthorField(Head(fields)) /\ "value" \in DOMAIN Head(fields)
             THEN Head(fields)["value"] ELSE <<>>)
         \o SourceAuthors(Tail(fields))

\* The entry has no sub-value under key k.
Lacks(obj, k) == k \notin DOMAIN obj \/ "value" \notin DOMAIN obj[k]

IsDigit(c) == c \in {Digit(d) : d \in 0..9}
DigitVal(c) == CHOOSE d \in 0..9 : Digit(d) = c

RECURSIVE LoadDigits(_, _, _)
LoadDigits(text, p, acc) ==
    IF p <= Len(text) /\ IsDigit(text[p])
    THEN LoadDigits(text, p + 1, acc * 10 + DigitVal(text[p]))
    ELSE [val |-> acc, next |-> p]

RECURSIVE Closing(_, _)
\* The position of the quote that closes a string.
Closing(text, p) == IF text[p] = "\"" THEN p ELSE Closing(text, p + 1)

LoadString(text, p) ==
    LET q == Closing(text, p + 1)
    IN  [val |-> SubSeq(text, p + 1, q - 1), next |-> q + 1]

RECURSIVE LoadValue(_, _)
RECURSIVE LoadElements(_, _)
RECURSIVE LoadMembers(_, _)

\* The elements of an array, from the first one to the closing bracket.
LoadElements(text, p) ==
    LET e == LoadValue(text, p) IN
    IF text[e.next] = ","
    THEN LET rest == LoadElements(text, e.next + 1)
         IN  [val |-> <<e.val>> \o rest.val, next |-> rest.next]
    ELSE [val |-> <<e.val>>, next |-> e.next + 1]

\* The members of an object, from the first key to the closing brace.
LoadMembers(text, p) ==
    LET k == LoadString(text, p)
        v == LoadValue(text, k.next + 1)
    IN  IF text[v.next] = ","
        THEN LET rest == LoadMembers(text, v.next + 1)
             IN  [val |-> (k.val[1] :> v.val) @@ rest.val, next |-> rest.next]
        ELSE [val |-> (k.val[1] :> v.val), next |-> v.next + 1]

\* null is None, a string its text, a number its value, an array a list and
\* an object a dict.
LoadValue(text, p) ==
    CASE text[p] = "null" -> [val |-> None, next |-> p + 1]
      [] text[p] = "\"" -> LoadString(text, p)
      [] text[p] = "[" -> IF text[p + 1] = "]" THEN [val |-> <<>>, next |-> p + 2]
                          ELSE LoadElements(text, p + 1)
      [] text[p] = "{" -> IF text[p + 1] = "}" THEN [val |-> EmptyDict, next |-> p + 2]
                          ELSE LoadMembers(text, p + 1)
      [] OTHER -> LoadDigits(text, p, 0)

json_load(text) == LoadValue(text, 1).val

\* The sub-value of an author entry under key k, None when it has none.
SubValue(obj, k) == IF Lacks(obj, k) THEN None ELSE <<obj[k]["value"]>>

\* The side-record file of the item being processed.
ItemAuthorsPath == AuthorsPath(GetOpt(item, "dataset_id"), META_DIR)

\* C11: the extracted author list has one entry per author entry of the
\* source metadata, in the same order and with its name and affiliation
\* (None where the entry has none); the file save_authors_metadata wrote,
\* read back, gives the same list.
C11_AuthorsRoundTrip ==
    metaOutcome = "Fetched" /\ pc = "download" =>
        LET src == SourceAuthors(Reach(dataset_json, CitationPath))
        IN  /\ Len(authors) = Len(src)
            /\ \A i \in 1..Len(src) :
                  authors[i] = [name |-> SubValue(src[i], "authorName"),
                                affiliation |-> SubValue(src[i], "authorAffiliation")]
            /\ ItemAuthorsPath \in DOMAIN metaFiles
            /\ json_load(metaFiles[ItemAuthorsPath])["authors"] = authors

C11_Witness ==
    /\ metaOutcome = "Fetched"
    /\ pc = "download"
    /\ Len(authors) = 2
    /\ authors[1] = [name |-> <<"Ann">>, affiliation |-> <<"MIT">>]
    /\ authors[2] = [name |-> <<"Bob">>, affiliation |-> None]
    /\ json_load(metaFiles[ItemAuthorsPath])["authors"] = authors
    /\ json_load(metaFiles[ItemAuthorsPath])["dataset_id"] = 7

\* The record save_authors_metadata is given for the item being processed.
ItemRecord(auths) ==
    [dataset_id |-> GetOpt(item, "dataset_id"),
     dataset_persistent_id |-> GetOpt(item, "dataset_persistent_id"),
     dataset_name |-> GetOpt(item, "dataset_name"),
     authors |-> auths]

\* The metadata directory after one more save_authors_metadata for the item
\* being processed, with the author list auths.
SavedAgain(auths) ==
    save_authors_metadata(GetOpt(item, "dataset_id"), GetOpt(item, "dataset_persistent_id"),
                          GetOpt(item, "dataset_name"), auths, META_DIR)

\* C12: once an item's side-record is written, the file of its dataset
\* holds exactly the record of this extraction, whatever earlier items wrote
\* under the same identifier; writing the same record again leaves the
\* metadata directory as it is, and writing another author list leaves
\* that list alone in the file, no other file touched.
C12_OverwrittenNotMerged ==
    metaOutcome = "Fetched" /\ pc = "download" =>
        /\ DOMAIN metaFiles = {ItemAuthorsPath}
        /\ metaFiles[ItemAuthorsPath] = json_dump(ItemRecord(authors))
        /\ SavedAgain(authors) = metaFiles
        /\ \A other \in {<<>>, <<[name |-> <<"Eve">>, affiliation |-> None]>>} :
              /\ json_load(SavedAgain(other)[ItemAuthorsPath])["authors"] = other
              /\ DOMAIN SavedAgain(other) = DOMAIN metaFiles

C12_Witness ==
    /\ metaOutcome = "Fetched"
    /\ pc = "download"
    /\ yielded = 3
    /\ count = 2
    /\ authors = <<>>
    /\ metaFiles = (ItemAuthorsPath :> json_dump(ItemRecord(<<>>)))
    /\ SavedAgain(<<[name |-> <<"Bob">>, affiliation |-> None]>>) # metaFiles

\* C13: a download request answered with status 403 ends the call with the
\* Forbidden outcome and no exception: no file of either directory is
\* created or changed, the request is not repeated (the item is done and
\* counted, nothing is left requested), and main goes on with its loop.
C13_ForbiddenReturnsNormally ==
    [][pc = "downloading" /\ outcome' = "Forbidden" =>
          /\ files' = files
          /\ metaFiles' = metaFiles
          /\ exc' = "none"
          /\ pc' = "iter"
          /\ item' = NoItem
          /\ download_url' = <<>>
          /\ dlCalls' = dlCalls
          /\ dlCalls' = count'
          /\ count' = count + 1]_vars

C13_Witness ==
    /\ outcome = "Forbidden"
    /\ pc = "meta"
    /\ count = 1
    /\ yielded = 2
    /\ dlCalls = 1
    /\ files = EmptyDict
    /\ exc = "none"

\* The access URL of the service for a file identifier.
AccessUrl(id) == <<"https://dataverse.harvard.edu", "/api/access/datafile/">> \o Str(id)

\* C14: a download call for an item whose permission flag is true requests
\* the item's direct URL when it has one, and the access URL of its file
\* identifier when it has no direct URL; with neither the call ends as
\* SkippedNoLocator, no request issued and no file written.
C14_UrlResolution ==
    [][pc = "download" /\ Permitted(item) =>
          /\ "url" \in DOMAIN item =>
                /\ pc' = "downloading"
                /\ download_url' = item["url"]
          /\ "url" \notin DOMAIN item /\ "file_id" \in DOMAIN item =>
                /\ pc' = "downloading"
                /\ download_url' = AccessUrl(item["file_id"])
          /\ "url" \notin DOMAIN item /\ "file_id" \notin DOMAIN item =>
                /\ outcome' = "SkippedNoLocator"
                /\ pc' = "iter"
                /\ download_url' = <<>>
                /\ files' = files
                /\ saved' = saved]_vars

C14_Witness ==
    /\ pc = "downloading"
    /\ Permitted(item)
    /\ "url" \in DOMAIN item
    /\ GetOpt(item, "file_id") = <<12>>
    /\ download_url = ItemUrl
    /\ outcome = "Requested"

\* The path made of the output directory and the name the item's file is
\* stored under: the file_id, an underscore and the name, or the name alone.
KeyPath(it) ==
    <<"harvard_qdpx_files", "/">>
    \o (IF "file_id" \in DOMAIN it THEN Str(it["file_id"]) \o <<"_">> ELSE <<>>)
    \o it["name"]

\* C15: no step of a download call, however the call ends, creates, changes
\* or removes a file of the output directory other than the one at the
\* item's path, or any file of the metadata directory.
C15_DownloadFrame ==
    [][(pc = "download" \/ pc = "downloading") =>
          /\ metaFiles' = metaFiles
          /\ \A p \in (DOMAIN files \cup DOMAIN files') \ {KeyPath(item)} :
                /\ p \in DOMAIN files
                /\ p \in DOMAIN files'
                /\ files'[p] = files[p]]_vars

C15_Witness ==
    /\ outcome = "Saved"
    /\ pc = "iter"
    /\ saved = 2
    /\ Cardinality(DOMAIN files) = 2
    /\ \A p \in DOMAIN files : files[p].complete
    /\ metaFiles # EmptyDict

\* C16: while a step of an item runs, every item yielded before it has been
\* through its metadata step and its download call; a page request, and the
\* pull of the next item, happen only when every item yielded so far has.
C16_OneItemAtATime ==
    /\ pc \in {"meta", "download", "downloading"} =>
          /\ item # NoItem
          /\ yielded = count + 1
    /\ pc \in {"meta", "download"} => dlCalls = count
    /\ pc = "meta" => metaOutcome = "none"
    /\ pc = "downloading" => dlCalls = count + 1 /\ metaOutcome # "none"
    /\ pc \in {"search", "iter", "report", "done"} =>
          /\ item = NoItem
          /\ yielded = count
          /\ dlCalls = count
          /\ metaOutcome = "none"

C16_Witness ==
    /\ pc = "search"
    /\ offsets = <<0>>
    /\ start = PerPage
    /\ yielded = 2
    /\ count = 2
    /\ dlCalls = 2
    /\ saved = 1

\* C17: the offsets requested are 0, per_page, 2 * per_page, ... in this
\* order, none twice; a further request is about to be issued only after a
\* page that held items and reported a total above the next offset, and
\* after an empty page the generator has ended.
C17_OffsetsAdvanceByPageSize ==
    /\ \A i \in 1..Len(offsets) : offsets[i] = (i - 1) * PerPage
    /\ pc = "search" =>
          /\ start = Len(offsets) * PerPage
          /\ offsets # <<>> => nitems > 0 /\ start < total_count /\ lastSearch = "OK"
    /\ offsets # <<>> /\ lastSearch = "OK" /\ nitems = 0 => pc \in {"report", "done"}
    /\ offsets # <<>> /\ lastSearch = "OK" /\ start >= total_count /\ start > offsets[Len(offsets)]
          => pc \in {"report", "done"}

C17_Witness ==
    /\ offsets = <<0, PerPage>>
    /\ lastSearch = "OK"
    /\ nitems = 0
    /\ total_count > start
    /\ pc = "report"

\* C18: a step changes the metadata directory only if it is the metadata
\* step of an item that has a dataset_persistent_id and whose document was
\* fetched; so an item without one, or whose fetch failed, leaves the
\* directory as it was through all its steps.  When the document is fetched
\* and the extraction returns, the item's side-record is written with the
\* list extracted, the empty list included.
C18_SideRecordOnlyAfterFetch ==
    [][/\ metaFiles' # metaFiles =>
              /\ pc = "meta"
              /\ "dataset_persistent_id" \in DOMAIN item
              /\ metaOutcome' = "Fetched"
       /\ metaOutcome' \in {"NoPid", "HTTPError", "ConnectionError"} =>
              metaFiles' = metaFiles
       /\ pc = "meta" /\ metaOutcome' = "Fetched" /\ exc' = "none" =>
              /\ ItemAuthorsPath \in DOMAIN metaFiles'
              /\ metaFiles'[ItemAuthorsPath] = json_dump(ItemRecord(authors'))]_vars

C18_Witness ==
    /\ pc = "download"
    /\ metaOutcome = "HTTPError"
    /\ yielded = 2
    /\ count = 1
    /\ metaFiles = (ItemAuthorsPath :> json_dump(ItemRecord(<<>>)))

\* The name ends in ".qdpx", in whatever case.
QdpxName(n) ==
    /\ Len(n) >= 5
    /\ Lower(SubSeq(n, Len(n) - 4, Len(n))) = <<".", "q", "d", "p", "x">>

\* C19: the item handed to process_qdpx_item has a name ending in ".qdpx" in
\* any case, and only the items with such a name are yielded.  The loop
\* step that takes an item with another name, or none, moves on in the page
\* and does nothing else: no metadata step, no download call, no count, no
\* file.  The end of a page advances the offset by per_page and tests it
\* against the total whatever number of its items were yielded.
C19_OnlyQdpxNamesYielded ==
    /\ [](/\ item # NoItem => "name" \in DOMAIN item /\ QdpxName(item["name"])
          /\ yielded = named
          /\ count <= yielded)
    /\ [][pc = "iter" /\ idx <= nitems /\ named' = named =>
             /\ idx' = idx + 1
             /\ pc' = "iter"
             /\ item' = NoItem
             /\ yielded' = yielded
             /\ count' = count
             /\ dlCalls' = dlCalls
             /\ metaOutcome' = "none"
             /\ files' = files
             /\ metaFiles' = metaFiles
             /\ start' = start]_vars
    /\ [][pc = "iter" /\ idx > nitems =>
             /\ start' = start + PerPage
             /\ pc' = IF start + PerPage >= total_count THEN "report" ELSE "search"
             /\ yielded' = yielded]_vars

C19_Witness ==
    /\ pc = "search"
    /\ offsets = <<0>>
    /\ start = PerPage
    /\ nitems = PerPage
    /\ fetched = PerPage
    /\ yielded = 0
    /\ count = 0
    /\ dlCalls = 0

\* C20: when the download call of an item whose document was fetched
\* begins, the item's side-record is on disk with the list extracted and
\* no download of the item has been attempted; no step of the download
\* call, however it ends, removes or changes the side-record.
C20_SideRecordSurvivesDownload ==
    /\ [](pc = "download" /\ metaOutcome = "Fetched" =>
             /\ dlCalls = count
             /\ download_url = <<>>
             /\ ItemAuthorsPath \in DOMAIN metaFiles
             /\ json_load(metaFiles[ItemAuthorsPath])["authors"] = authors)
    /\ [][(pc = "download" \/ pc = "downloading") /\ metaOutcome = "Fetched" =>
             /\ ItemAuthorsPath \in DOMAIN metaFiles'
             /\ metaFiles'[ItemAuthorsPath] = metaFiles[ItemAuthorsPath]]_vars

C20_Witness ==
    /\ pc = "crashed"
    /\ outcome = "Failed"
    /\ metaOutcome = "Fetched"
    /\ exc = "HTTPError"
    /\ AuthorsPath(<<7>>, META_DIR) \in DOMAIN metaFiles
    /\ json_load(metaFiles[AuthorsPath(<<7>>, META_DIR)])["authors"]
          = <<[name |-> <<"Bob">>, affiliation |-> None]>>

====
